---- MODULE Spec2Model ----
(***************************************************************************)
(* Model of the comparable-discovery pipeline of EquiComp (src/comps.py):  *)
(* find_comparables, generate_candidate_comparables, the pre-oracle        *)
(* filters, PublicStatusValidator (verify_batch, verify_single_company,    *)
(* validate_companies), score_comparable and the threshold selection of    *)
(* validate_and_rank_comparables.                                          *)
(*                                                                         *)
(* Oracles (LLM and embedding calls) are nondeterministic: every call      *)
(* either raises or returns a value of a bounded pool.  JSON values are    *)
(* strings; "MISSING" stands for an absent key, "NULL" for JSON null.      *)
(* Scores are integers in thousandths (round(score, 3) * 1000).            *)
(*                                                                         *)
(* Seven specifications share the actions: Spec (whole searches over short *)
(* generator lists and every kind of oracle answer), SpecValidate          *)
(* (validate_companies on one candidate, for every verification record),   *)
(* SpecRank (whole searches over long lists of well-formed candidates),    *)
(* SpecLive (whole searches under weak fairness, for termination),         *)
(* SpecScore (searches over every scoring input, with caveats, flags and   *)
(* failed embeddings), SpecOrder (one attempt over every order of distinct *)
(* candidates) and SpecBatch (validate_companies over more than one batch  *)
(* of candidates).                                                         *)
(***************************************************************************)
EXTENDS Integers, Sequences, FiniteSets, TLC

VARIABLES
    pc,             \* position of the search
    min_required,   \* find_comparables parameter
    max_attempts,   \* find_comparables parameter
    analysis,       \* target profile returned by analyze_target_company
    attempt,        \* loop variable of find_comparables
    use_broader,    \* use_broader of the current attempt
    gen_attempt,    \* attempt parameter of generate_candidate_comparables
    genCalls,       \* generation oracle calls made in the current attempt
    sleeps,         \* back-off sleeps of the current generator invocation
    genOutcome,     \* how the generator of the current attempt returned:
                    \* "self" for a list that named the target itself
    candidates,     \* candidates of the current attempt
    all_rejected,   \* all_rejected of validate_and_rank_comparables
    data_valid,     \* data_valid, the input of validate_companies
    bi,             \* verify_batch: first index of the current batch
    fi,             \* verify_batch: index of the individual fallback
    results,        \* verify_batch: results
    vidx,           \* validate_companies: index of the decision loop
    valid,          \* validate_companies: valid
    rejected,       \* validate_companies: rejected
    decided,        \* per decided candidate: the list and position of its entry
    cache,          \* PublicStatusValidator._cache
    verCalls,       \* per ticker+exchange pair: oracle calls that verified it
    best_comps,     \* find_comparables: best_comps
    best_rejected,  \* find_comparables: best_rejected
    out_comps,      \* returned comparables
    scored,         \* validate_and_rank_comparables: scored
    out_rejected,   \* metadata["rejected_companies"] of the returned metadata
    producedRej,    \* every rejection produced so far in the search
    fb,             \* the last individual fallback of verify_batch
    comps,          \* find_comparables: comps of the current attempt
    thresholds,     \* validate_and_rank_comparables: thresholds
    attemptCounts,  \* per finished attempt: the number of its comparables
    strategy,       \* search strategy of the last generation prompt
    analysisCalls,  \* analysis oracle calls made so far
    embedCalls,     \* embeddings of the target computed so far
    target_emb,     \* find_comparables: target_emb
    scoreIns,       \* per scored comparable of valid: what the oracles of
                    \* its score_comparable call answered
    normalized      \* the companies whose description the current attempt
                    \* has normalized, in the order of the calls

vars == <<pc, min_required, max_attempts, analysis, attempt, use_broader,
          gen_attempt, genCalls, sleeps, genOutcome, candidates,
          all_rejected, data_valid, bi, fi, results, vidx, valid, rejected,
          decided,
          cache, verCalls, best_comps, best_rejected, out_comps,
          scored, out_rejected, producedRej, fb, comps, thresholds,
          attemptCounts, strategy, analysisCalls, embedCalls, target_emb,
          scoreIns, normalized>>

----------------------------------------------------------------------------
(* Bounds of the model *)

MaxCands == 2        \* longest generator response of the main specification
MaxAttempts == 3     \* largest max_attempts explored
MaxMinRequired == 2  \* largest min_required explored
MaxLong == 12        \* longest generator response of the ranking specification
MaxRankAttempts == 2 \* largest max_attempts of the ranking specification
MaxOrder == 4        \* longest generator response of the order specification
MaxVerified == 11    \* longest input of the batch specification

(* Program constants *)

max_allowed == 10
batch_size == 5
GenRetryLimit == 3

----------------------------------------------------------------------------
(* Sequence helpers *)

Range(s) == {s[i] : i \in 1..Len(s)}

Min(a, b) == IF a < b THEN a ELSE b

Take(s, n) == SubSeq(s, 1, Min(n, Len(s)))

SeqsUpTo(S, n) == UNION {[1..k -> S] : k \in 0..n}

RECURSIVE Pow2(_)
Pow2(k) == IF k = 0 THEN 1 ELSE 2 * Pow2(k - 1)

----------------------------------------------------------------------------
(* Strings.  str.upper(), str.lower() and str.strip() on the strings the   *)
(* model uses.                                                             *)

Upper(s) ==
    CASE s = "alp" -> "ALP"
      [] s = "alp " -> "ALP "
      [] s = "n/a" -> "N/A"
      [] OTHER -> s

Lower(s) ==
    CASE s = "ALP" -> "alp"
      [] s = "ALP " -> "alp "
      [] s = "BET" -> "bet"
      [] s = "N/A" -> "n/a"
      [] s = "Unknown" -> "unknown"
      [] s = "NYSE" -> "nyse"
      [] s = "TargetCo" -> "targetco"
      [] s = "TargetCo Services" -> "targetco services"
      [] s = "TARGETCO Holdings" -> "targetco holdings"
      [] s = "Alpha Systems" -> "alpha systems"
      [] OTHER -> s

Strip(s) ==
    CASE s = "alp " -> "alp"
      [] s = "ALP " -> "ALP"
      [] s = " " -> ""
      [] OTHER -> s

----------------------------------------------------------------------------
(* Candidates: the objects of the generation oracle's JSON array *)

Cand(n, t, b) ==
    [name |-> n, url |-> "https://x", exchange |-> "NYSE", ticker |-> t,
     business_activity |-> b]

CandA == Cand("Alpha Systems", "ALP", "software")
CandAlow == Cand("Alpha Systems", "alp ", "software")
CandB == Cand("Beta Networks", "BET", "software")
CandBad == Cand("Delta Labs", "N/A", "software")
CandSpac == Cand("Gamma SPAC", "GAM", "blank check company")
CandSelf == Cand("TargetCo Services", "TGT", "software")
CandSelfUpper == Cand("TARGETCO Holdings", "TGH", "software")
CandC == Cand("Epsilon Data", "EPS", "software")

(* distinct well-formed candidates for the long generator responses *)
LongTickers == <<"T01", "T02", "T03", "T04", "T05", "T06", "T07", "T08",
                 "T09", "T10", "T11", "T12", "T13", "T14">>
CandN(i) == Cand("Alpha Systems", LongTickers[i], "software")

(* comp.get(field, ""): an absent key reads as the empty string *)
Get0(val) == IF val = "MISSING" THEN "" ELSE val

(* the lowercase strings of the model that contain target_name_lower *)
WithTargetName ==
    {"targetco", "targetco services", "targetco holdings"}

(* target_name_lower in c.get("name", "").lower() *)
ContainsTarget(name) == Lower(Get0(name)) \in WithTargetName

(* DropSelf comparing the names without lowering them *)
DropSelf_CaseSensitive(resp) ==
    SelectSeq(resp, LAMBDA c : c.name \notin {"TargetCo", "TargetCo Services"})

(* lines 871-876: the filter that drops the target itself *)
DropSelf(resp) == SelectSeq(resp, LAMBDA c : ~ContainsTarget(c.name))

(* not isinstance(val, str) or not val.strip() or val.lower() in {...} *)
IsBadField(val) ==
    \/ val = "NULL"
    \/ Strip(Get0(val)) = ""
    \/ Lower(val) \in {"na", "n/a", "none", "unknown"}

RequiredFields == <<"name", "url", "exchange", "ticker", "business_activity">>

is_valid_company_data(comp) ==
    \A i \in 1..Len(RequiredFields) : ~IsBadField(comp[RequiredFields[i]])

(* The structural signals, in the order of the list, and the signals each  *)
(* lower-cased text of the model contains as a substring.                  *)
structural_non_operating ==
    << <<"holding company", "Holding company structure">>,
       <<"investment vehicle", "Investment vehicle">>,
       <<"spac", "Special Purpose Acquisition Company">>,
       <<"shell company", "Shell company">>,
       <<"investment trust", "Investment trust structure">>,
       <<"blank check", "Blank check company">>,
       <<"special purpose acquisition", "SPAC structure">> >>

SignalsIn(text) ==
    CASE text = "Gamma SPAC" -> {"spac"}
      [] text = "blank check company" -> {"blank check"}
      [] OTHER -> {}

(* is_operating_company_basic: the reason of the first signal found, or    *)
(* "NONE" for (True, None)                                                 *)
is_operating_company_basic(comp) ==
    LET found == SignalsIn(comp.business_activity) \cup SignalsIn(comp.name)
        hits == {i \in 1..Len(structural_non_operating) :
                    structural_non_operating[i][1] \in found}
    IN  IF hits = {} THEN "NONE"
        ELSE structural_non_operating[CHOOSE i \in hits :
                                         \A j \in hits : i <= j][2]

----------------------------------------------------------------------------
(* Verification records: the items of a parsed verification response *)

Rec(p, s, c, r, a, d, m) ==
    [kind |-> "obj", is_publicly_traded |-> p, status |-> s, confidence |-> c,
     reason |-> r, acquirer |-> a, date_changed |-> d, material_changes |-> m]

NonObj == [kind |-> "nonobj", is_publicly_traded |-> "MISSING",
           status |-> "MISSING", confidence |-> "MISSING",
           reason |-> "MISSING", acquirer |-> "MISSING",
           date_changed |-> "MISSING", material_changes |-> "MISSING"]

PublicVals == {"true", "false", "NULL", "MISSING"}
StatusVals == {"ACTIVE", "ACQUIRED", "MERGED", "DELISTED", "PRIVATE",
               "UNCERTAIN", "NULL", "MISSING"}
ConfidenceVals == {"HIGH", "MEDIUM", "LOW", "NULL", "MISSING"}
ReasonVals == {"went private", "", "NULL", "MISSING"}
AcquirerVals == {"BigCo (BIG)", "NULL"}
DateVals == {"2023-05-01", "NULL"}
MaterialVals == {"divested segment", "", "NULL", "MISSING"}

AllRecs ==
    {Rec(p, s, c, r, a, d, m) :
        p \in PublicVals, s \in StatusVals, c \in ConfidenceVals,
        r \in ReasonVals, a \in AcquirerVals, d \in DateVals,
        m \in MaterialVals}

(* dict.get(key, default): the default only replaces an absent key *)
Get(rec, key, default) == IF rec[key] = "MISSING" THEN default ELSE rec[key]

(* dict.setdefault of verify_single_company *)
SetDefaults(rec) ==
    [rec EXCEPT !.is_publicly_traded = Get(rec, "is_publicly_traded", "NULL"),
                !.status = Get(rec, "status", "UNCERTAIN"),
                !.confidence = Get(rec, "confidence", "LOW")]

(* uncertain with a confidence that validate_companies accepts *)
uncertain_Medium ==
    [kind |-> "obj", is_publicly_traded |-> "NULL", status |-> "UNCERTAIN",
     confidence |-> "MEDIUM",
     reason |-> "Verification failed - manual check required",
     acquirer |-> "MISSING", date_changed |-> "MISSING",
     material_changes |-> "MISSING"]

(* the record verify_single_company returns on failure *)
uncertain ==
    [kind |-> "obj", is_publicly_traded |-> "NULL", status |-> "UNCERTAIN",
     confidence |-> "LOW",
     reason |-> "Verification failed - manual check required",
     acquirer |-> "MISSING", date_changed |-> "MISSING",
     material_changes |-> "MISSING"]

(* Python truthiness of a JSON string or null *)
Truthy(v) == v \notin {"MISSING", "NULL", ""}

NotTrading == {"ACQUIRED", "MERGED", "DELISTED", "PRIVATE"}

ManualReason ==
    "Could not confirm public trading status - manual verification required"

(* Branch without the status test of the first condition *)
Branch_PublicOnly(v) ==
    LET status == Get(v, "status", "UNCERTAIN")
        is_public == Get(v, "is_publicly_traded", "NULL")
        confidence == Get(v, "confidence", "LOW")
    IN  IF is_public = "true" THEN "active"
        ELSE IF is_public = "false" \/ status \in NotTrading
                THEN "not_trading"
        ELSE IF status = "UNCERTAIN" /\ confidence = "LOW"
                THEN "uncertain_low"
        ELSE "likely_active"

(* Branch without the branch of the uncertain, low-confidence records *)
Branch_NoLowCheck(v) ==
    LET status == Get(v, "status", "UNCERTAIN")
        is_public == Get(v, "is_publicly_traded", "NULL")
    IN  IF is_public = "true" /\ status = "ACTIVE" THEN "active"
        ELSE IF is_public = "false" \/ status \in NotTrading
                THEN "not_trading"
        ELSE "likely_active"

(* The branch of the decision logic of validate_companies a record takes *)
Branch(v) ==
    LET status == Get(v, "status", "UNCERTAIN")
        is_public == Get(v, "is_publicly_traded", "NULL")
        confidence == Get(v, "confidence", "LOW")
    IN  IF is_public = "true" /\ status = "ACTIVE" THEN "active"
        ELSE IF is_public = "false" \/ status \in NotTrading
                THEN "not_trading"
        ELSE IF status = "UNCERTAIN" /\ confidence = "LOW"
                THEN "uncertain_low"
        ELSE "likely_active"

(* A comparable: the candidate dict with the keys the pipeline adds *)
Comp(c) ==
    [company |-> c, _caveat |-> "NONE", _needs_verification |-> FALSE,
     _verification_note |-> "NONE", validation_score |-> 0]

(* Accepted with "material_changes is not None" for the caveat test *)
Accepted_CaveatNotNone(comp, v) ==
    IF Branch(v) = "active"
        THEN IF Get(v, "material_changes", "NULL") # "NULL"
                THEN [comp EXCEPT !._caveat = v.material_changes]
                ELSE comp
        ELSE [comp EXCEPT !._needs_verification = TRUE,
                          !._verification_note =
                              Get(v, "reason", "Status uncertain")]

(* what valid.append(comp) appends for record v *)
Accepted(comp, v) ==
    IF Branch(v) = "active"
        THEN IF Truthy(Get(v, "material_changes", "NULL"))
                THEN [comp EXCEPT !._caveat = v.material_changes]
                ELSE comp
        ELSE [comp EXCEPT !._needs_verification = TRUE,
                          !._verification_note =
                              Get(v, "reason", "Status uncertain")]

(* A rejection entry; "ABSENT" is a key the entry does not have *)
Rejection(c, s, r, a, d, cf) ==
    [company |-> c, status |-> s, reason |-> r, acquirer |-> a, date |-> d,
     confidence |-> cf]

(* what rejected.append(...) appends for record v *)
RejectedEntry(comp, v) ==
    IF Branch(v) = "not_trading"
        THEN Rejection(comp.company, Get(v, "status", "UNCERTAIN"),
                       Get(v, "reason", "No longer publicly traded"),
                       Get(v, "acquirer", "NULL"),
                       Get(v, "date_changed", "NULL"),
                       Get(v, "confidence", "LOW"))
        ELSE Rejection(comp.company, "UNCERTAIN", ManualReason, "ABSENT",
                       "ABSENT", "LOW")

(* the iteration raises: verification.get on a non-object, or [:50] of a   *)
(* null reason in the log line of the not-trading branch                   *)
DecisionRaises(v) ==
    \/ v.kind # "obj"
    \/ Branch(v) = "not_trading" /\ v.reason = "NULL"

----------------------------------------------------------------------------
(* Scoring (score_comparable) and threshold selection *)

(* What the oracles of one score_comparable call answer: the embedding     *)
(* call ("ok", or "fail" for a call that raises), the cosine similarity of *)
(* the embedding it returns and the focus overlap in thousandths, and the  *)
(* business-model response ("ok" with match_score, "fail" for a failed     *)
(* call or a response without match_score, "null" for match_score: null).  *)
ScoreIn(sim, focus, bm, match) ==
    [emb |-> "ok", sim |-> sim, focus |-> focus, bm |-> bm, match |-> match]

(* the same answers after an embedding call that raised *)
EmbedFails(in) == [in EXCEPT !.emb = "fail"]

(* embed_texts and cosine_similarity: a failed call gives the zero vector, *)
(* whose norm product is 0, so the similarity is 0.0                       *)
semantic_sim(in) == IF in.emb = "fail" THEN 0 ELSE in.sim

(* model_assessment.get("match_score", 0.5) * 0.75 on None *)
ScoreRaises(in) == in.bm = "null"

(* score_comparable with a caveat penalty of 0.25 *)
score_comparable_CaveatQuarter(comp, profile, in) ==
    LET weight == 3000 + 2 * profile.specialization_level
        focus == IF profile.core_focus_areas = "list" THEN in.focus ELSE 0
        match == IF in.bm = "ok" THEN in.match ELSE 500
        caveat == IF comp._caveat # "NONE" THEN 250 ELSE 0
        needs == IF comp._needs_verification THEN 250 ELSE 0
        micro == 1000 * 1000 + semantic_sim(in) * weight + focus * 1500
                 + match * 750 - (caveat + needs) * 1000
    IN  (micro + 500) \div 1000

(* round(score, 3) in thousandths; the focus overlap counts only for a     *)
(* profile with focus areas                                                *)
score_comparable(comp, profile, in) ==
    LET weight == 3000 + 2 * profile.specialization_level
        focus == IF profile.core_focus_areas = "list" THEN in.focus ELSE 0
        match == IF in.bm = "ok" THEN in.match ELSE 500
        caveat == IF comp._caveat # "NONE" THEN 500 ELSE 0
        needs == IF comp._needs_verification THEN 250 ELSE 0
        micro == 1000 * 1000 + semantic_sim(in) * weight + focus * 1500
                 + match * 750 - (caveat + needs) * 1000
    IN  (micro + 500) \div 1000

(* RankDesc placing equal scores in the reverse of their order *)
RankDesc_TiesReversed(s, i) ==
    1 + Cardinality({j \in 1..Len(s) :
            \/ s[j].validation_score > s[i].validation_score
            \/ /\ s[j].validation_score = s[i].validation_score
               /\ j > i})

(* the position of s[i] in the stable descending order of the scores:     *)
(* after every higher score and after the equal scores that precede it     *)
RankDesc(s, i) ==
    1 + Cardinality({j \in 1..Len(s) :
            \/ s[j].validation_score > s[i].validation_score
            \/ /\ s[j].validation_score = s[i].validation_score
               /\ j < i})

(* sorted(public_valid, key=validation_score, reverse=True): stable *)
SortDesc(s) ==
    [k \in 1..Len(s) |-> s[CHOOSE i \in 1..Len(s) : RankDesc(s, i) = k]]

(* Thresholds with the strict ladder above 0.7 only *)
Thresholds_Above(spec_level) ==
    IF spec_level > 700 THEN <<5000, 4000, 3000>>
    ELSE <<4000, 3000, 2000>>

(* line 1217: the ladder of the threshold loop *)
Thresholds(spec_level) ==
    IF spec_level >= 700 THEN <<5000, 4000, 3000>>
    ELSE <<4000, 3000, 2000>>

(* AtLeast with the comparison reversed *)
AtLeast_Below(sc, t) == SelectSeq(sc, LAMBDA c : c.validation_score <= t)

(* AtLeast keeping the scores above the threshold only *)
AtLeast_Above(sc, t) == SelectSeq(sc, LAMBDA c : c.validation_score > t)

(* line 1219: the scored comparables at or above threshold t *)
AtLeast(sc, t) == SelectSeq(sc, LAMBDA c : c.validation_score >= t)

(* Truncate without the slice *)
Truncate_NoSlice(s) == s

(* filtered[:max_allowed] and scored[:max_allowed] *)
Truncate(s) == Take(s, max_allowed)

(* the threshold loop and the fallback of validate_and_rank_comparables *)
RECURSIVE ThresholdSelect(_, _, _)
ThresholdSelect(sc, ths, minreq) ==
    IF ths = <<>> THEN Truncate(sc)
    ELSE IF Len(AtLeast(sc, Head(ths))) >= minreq
            THEN Truncate(AtLeast(sc, Head(ths)))
            ELSE ThresholdSelect(sc, Tail(ths), minreq)

----------------------------------------------------------------------------
(* The verification cache *)

(* cache_key of verify_batch: ticker.upper() ':' exchange *)
BatchKey(c) == <<Upper(Get0(c.ticker)), Get0(c.exchange)>>

(* cache_key of verify_single_company: ticker.upper().strip() ':' exchange *)
SingleKey(c) == <<Strip(Upper(Get0(c.ticker))), Get0(c.exchange)>>

(* the ticker+exchange pair a candidate stands for *)
PairOf(c) == SingleKey(c)

Put(f, k, v) == [x \in DOMAIN f \cup {k} |-> IF x = k THEN v ELSE f[x]]

Count(f, k) == IF k \in DOMAIN f THEN f[k] ELSE 0

(* for comp, result in zip(batch, batch_results): self._cache[key] = result *)
RECURSIVE CacheBatch(_, _, _)
CacheBatch(f, batch, items) ==
    IF batch = <<>> THEN f
    ELSE CacheBatch(Put(f, BatchKey(Head(batch).company), Head(items)),
                    Tail(batch), Tail(items))

(* one more oracle call that verified the pairs of the batch *)
CountBatch(f, batch) ==
    LET keys == {PairOf(batch[i].company) : i \in 1..Len(batch)}
    IN  [x \in DOMAIN f \cup keys |->
            Count(f, x) + (IF x \in keys THEN 1 ELSE 0)]

(* companies[i:i + batch_size], 1-based *)
BatchAt(companies, i) ==
    SubSeq(companies, i, Min(i + batch_size - 1, Len(companies)))

----------------------------------------------------------------------------
(* Target analysis *)

DefaultLevel == 500

(* a parsed analysis response: kind "raise" (the call failed), "nondict"   *)
(* (the response parsed to a list) or "dict"; a field of a dict is a       *)
(* value ("num", "list"), null or absent                                   *)
AnalysisResp(k, sk, lvl, fk) ==
    [kind |-> k, spec_kind |-> sk, specialization_level |-> lvl,
     focus_kind |-> fk]

(* analyze_target_company: setdefault fills absent keys only; a failed     *)
(* call and a non-dict response give the default profile                   *)
analyze_target_company(resp) ==
    IF resp.kind # "dict"
        THEN [specialization_level |-> DefaultLevel,
              core_focus_areas |-> "empty", null_field |-> FALSE]
        ELSE [specialization_level |->
                  IF resp.spec_kind = "num" THEN resp.specialization_level
                  ELSE DefaultLevel,
              core_focus_areas |->
                  IF resp.focus_kind = "list" THEN "list" ELSE "empty",
              null_field |-> resp.spec_kind = "null"
                             \/ resp.focus_kind = "null"]

----------------------------------------------------------------------------
(* find_comparables *)

(* no fallback of verify_batch has started *)
NoFallback == [start |-> 0, size |-> 0, calls |-> <<>>, failed |-> <<>>]

InitLocals ==
    /\ candidates = <<>>
    /\ all_rejected = <<>>
    /\ data_valid = <<>>
    /\ bi = 1
    /\ fi = 1
    /\ results = <<>>
    /\ vidx = 1
    /\ valid = <<>>
    /\ rejected = <<>>
    /\ decided = <<>>
    /\ scored = <<>>
    /\ fb = NoFallback
    /\ comps = <<>>
    /\ thresholds = <<>>
    /\ scoreIns = <<>>
    /\ normalized = <<>>

InitSearch ==
    /\ pc = "analyze"
    /\ analysis = analyze_target_company(AnalysisResp("raise", "missing", 0,
                                                      "missing"))
    /\ attempt = 0
    /\ use_broader = FALSE
    /\ gen_attempt = 0
    /\ genCalls = 0
    /\ sleeps = <<>>
    /\ genOutcome = "none"
    /\ cache = <<>>
    /\ verCalls = <<>>
    /\ best_comps = <<>>
    /\ best_rejected = <<>>
    /\ out_comps = <<>>
    /\ out_rejected = <<>>
    /\ producedRej = {}
    /\ attemptCounts = <<>>
    /\ strategy = "none"
    /\ analysisCalls = 0
    /\ embedCalls = 0
    /\ target_emb = "unset"
    /\ InitLocals

Init ==
    /\ min_required \in 1..MaxMinRequired
    /\ max_attempts \in 1..MaxAttempts
    /\ InitSearch

params == <<min_required, max_attempts>>
genVars == <<gen_attempt, genCalls, sleeps, genOutcome, candidates>>
rankVars == <<all_rejected, data_valid, scored, scoreIns, normalized>>
verVars == <<bi, fi, results>>
valVars == <<vidx, valid, rejected, decided>>
bestVars == <<best_comps, best_rejected>>
selVars == <<comps, thresholds>>
onceVars == <<analysisCalls, embedCalls, target_emb>>
outVars == <<out_comps, out_rejected>>

(* Step 1: analyze; the prints of lines 1251-1252 raise on a null field *)
Analyze(APool) ==
    /\ pc = "analyze"
    /\ \E resp \in APool :
          /\ analysis' = analyze_target_company(resp)
          /\ pc' = IF analysis'.null_field THEN "raised" ELSE "embed"
    /\ analysisCalls' = analysisCalls + 1
    /\ UNCHANGED <<params, attempt, use_broader, genVars, rankVars, verVars,
                   valVars, cache, verCalls, bestVars, outVars, producedRej,
                   fb, selVars, attemptCounts, strategy, embedCalls,
                   target_emb>>

(* EnterAttempt with broader mode in the first attempt as well *)
EnterAttempt_BroaderAtFirst(a, bc) ==
    /\ attempt' = a
    /\ use_broader' = (Len(bc) < min_required)
    /\ gen_attempt' = a
    /\ genCalls' = 0
    /\ sleeps' = <<>>
    /\ genOutcome' = "none"
    /\ pc' = "generate"
    /\ UNCHANGED <<analysis, analysisCalls>>

(* EnterAttempt with an analysis oracle call in every attempt *)
EnterAttempt_Reanalyze(a, bc) ==
    /\ attempt' = a
    /\ use_broader' = (a > 1 /\ Len(bc) < min_required)
    /\ gen_attempt' = a
    /\ genCalls' = 0
    /\ sleeps' = <<>>
    /\ genOutcome' = "none"
    /\ pc' = "generate"
    /\ analysisCalls' = analysisCalls + 1
    /\ UNCHANGED analysis

(* the head of the loop body for attempt a, with best_comps = bc: neither  *)
(* the profile nor the target embedding is computed again                  *)
EnterAttempt(a, bc) ==
    /\ attempt' = a
    /\ use_broader' = (a > 1 /\ Len(bc) < min_required)
    /\ gen_attempt' = a
    /\ genCalls' = 0
    /\ sleeps' = <<>>
    /\ genOutcome' = "none"
    /\ pc' = "generate"
    /\ UNCHANGED <<analysis, analysisCalls>>

(* Step 2: normalize and embed the target; both calls catch their errors *)
EmbedTarget ==
    /\ pc = "embed"
    /\ IF 1 <= max_attempts
          THEN EnterAttempt(1, best_comps) /\ UNCHANGED outVars
          ELSE /\ pc' = "done"
               /\ out_comps' = best_comps
               /\ out_rejected' = best_rejected
               /\ UNCHANGED <<attempt, use_broader, gen_attempt, genCalls,
                              sleeps, genOutcome, analysis, analysisCalls>>
    /\ embedCalls' = embedCalls + 1
    /\ target_emb' = "vector"
    /\ UNCHANGED <<params, candidates, rankVars, verVars, valVars,
                   cache, verCalls, bestVars, producedRej, fb, selVars,
                   attemptCounts, strategy>>

(* lines 783-811: the strategy section of the generation prompt *)
search_strategy(broader, spec_level) ==
    IF broader THEN "broader"
    ELSE IF spec_level >= 700 THEN "strict"
    ELSE "moderate"

(* generate_candidate_comparables: one oracle call.  A failed call (or an  *)
(* item without a usable name, which raises inside the try) is retried     *)
(* while attempt < 3, after sleeping 2 ** attempt.                         *)
GenCall(GPool, GKinds) ==
    /\ pc = "generate"
    /\ genCalls' = genCalls + 1
    /\ \E kind \in GKinds :
          \/ /\ kind = "raise"
             /\ IF gen_attempt < GenRetryLimit
                   THEN /\ sleeps' = Append(sleeps, Pow2(gen_attempt))
                        /\ gen_attempt' = gen_attempt + 1
                        /\ UNCHANGED <<pc, genOutcome, candidates>>
                   ELSE /\ candidates' = <<>>
                        /\ genOutcome' = "exhausted"
                        /\ pc' = "generated"
                        /\ UNCHANGED <<sleeps, gen_attempt>>
          \/ /\ kind = "nonlist"
             /\ candidates' = <<>>
             /\ genOutcome' = "nonlist"
             /\ pc' = "generated"
             /\ UNCHANGED <<sleeps, gen_attempt>>
          \/ /\ kind = "list"
             /\ \E resp \in GPool :
                   /\ candidates' = DropSelf(resp)
                   /\ genOutcome' = IF \E i \in 1..Len(resp) :
                                          ContainsTarget(resp[i].name)
                                       THEN "self" ELSE "ok"
             /\ pc' = "generated"
             /\ UNCHANGED <<sleeps, gen_attempt>>
    /\ strategy' = search_strategy(use_broader, analysis.specialization_level)
    /\ UNCHANGED <<params, analysis, attempt, use_broader, rankVars, verVars,
                   valVars, cache, verCalls, bestVars, outVars, producedRej,
                   fb, selVars, attemptCounts, onceVars>>

(* NextAttemptOrReturn running one attempt more than max_attempts *)
NextAttemptOrReturn_OneMore(bc, br) ==
    IF attempt < max_attempts + 1
        THEN EnterAttempt(attempt + 1, bc) /\ UNCHANGED outVars
        ELSE /\ pc' = "done"
             /\ out_comps' = bc
             /\ out_rejected' = br
             /\ UNCHANGED <<attempt, use_broader, gen_attempt, genCalls,
                            sleeps, genOutcome, analysis, analysisCalls>>

(* the end of the loop body when the attempt did not reach min_required:   *)
(* the next attempt, or the return of the best attempt                     *)
NextAttemptOrReturn(bc, br) ==
    IF attempt < max_attempts
        THEN EnterAttempt(attempt + 1, bc) /\ UNCHANGED outVars
        ELSE /\ pc' = "done"
             /\ out_comps' = bc
             /\ out_rejected' = br
             /\ UNCHANGED <<attempt, use_broader, gen_attempt, genCalls,
                            sleeps, genOutcome, analysis, analysisCalls>>

(* lines 1273-1279: no candidates -> continue *)
AfterGenerate ==
    /\ pc = "generated"
    /\ IF candidates = <<>>
          THEN /\ NextAttemptOrReturn(best_comps, best_rejected)
               /\ attemptCounts' = Append(attemptCounts, 0)
          ELSE /\ pc' = "filter"
               /\ UNCHANGED <<attempt, use_broader, gen_attempt, genCalls,
                              sleeps, genOutcome, outVars, attemptCounts,
                              analysis, analysisCalls>>
    /\ UNCHANGED <<params, candidates, rankVars, verVars, valVars,
                   cache, verCalls, bestVars, producedRej, fb, selVars,
                   strategy, embedCalls, target_emb>>

----------------------------------------------------------------------------
(* validate_and_rank_comparables *)

PreRejection(c, reason, status) ==
    Rejection(c, status, reason, "ABSENT", "ABSENT", "ABSENT")

(* Step 1 of validate_and_rank_comparables: the rejections of the two      *)
(* pre-oracle filters, in candidate order                                  *)
RECURSIVE PreRejected(_)
PreRejected(cs) ==
    IF cs = <<>> THEN <<>>
    ELSE LET c == Head(cs)
         IN  IF ~is_valid_company_data(c)
                THEN <<PreRejection(c, "Incomplete data", "DATA_INVALID")>>
                     \o PreRejected(Tail(cs))
             ELSE IF is_operating_company_basic(c) # "NONE"
                THEN <<PreRejection(c, is_operating_company_basic(c),
                                    "NON_OPERATING")>>
                     \o PreRejected(Tail(cs))
             ELSE PreRejected(Tail(cs))

(* PassesFilters without the check for non-operating structures *)
PassesFilters_DataOnly(c) == is_valid_company_data(c)

(* lines 1183-1191: the candidates appended to data_valid *)
PassesFilters(c) ==
    is_valid_company_data(c) /\ is_operating_company_basic(c) = "NONE"

RECURSIVE MapComp(_)
MapComp(cs) == IF cs = <<>> THEN <<>> ELSE <<Comp(Head(cs))>> \o MapComp(Tail(cs))

(* lines 1177-1196, up to the call of validate_companies, which returns    *)
(* ([], []) at once for an empty list                                      *)
Filter ==
    /\ pc = "filter"
    /\ all_rejected' = PreRejected(candidates)
    /\ data_valid' = MapComp(SelectSeq(candidates, PassesFilters))
    /\ producedRej' = producedRej \cup Range(all_rejected')
    /\ results' = <<>>
    /\ bi' = 1
    /\ fi' = 1
    /\ vidx' = 1
    /\ valid' = <<>>
    /\ rejected' = <<>>
    /\ decided' = <<>>
    /\ scored' = <<>>
    /\ scoreIns' = <<>>
    /\ normalized' = <<>>
    /\ fb' = NoFallback
    /\ comps' = <<>>
    /\ thresholds' = <<>>
    /\ pc' = IF data_valid' = <<>> THEN "normalize" ELSE "verify_batch"
    /\ UNCHANGED <<params, analysis, attempt, use_broader, genVars, cache,
                   verCalls, bestVars, outVars, attemptCounts, strategy,
                   onceVars>>

(* AfterBatch leaving out a last batch shorter than batch_size *)
AfterBatch_FullOnly(i) ==
    IF i + 2 * batch_size - 1 <= Len(data_valid)
        THEN bi' = i + batch_size /\ pc' = "verify_batch"
        ELSE bi' = i /\ pc' = "validate"

(* after the batch that starts at i: the next batch, or the decision loop *)
AfterBatch(i) ==
    IF i + batch_size <= Len(data_valid)
        THEN bi' = i + batch_size /\ pc' = "verify_batch"
        ELSE bi' = i /\ pc' = "validate"

(* verify_batch: the oracle call for one batch.  A list of the length of   *)
(* the batch is cached item by item and appended; a failed call and any    *)
(* other response start the individual fallback.                           *)
VerifyBatch(IPool, BKinds) ==
    /\ pc = "verify_batch"
    /\ LET batch == BatchAt(data_valid, bi)
       IN  \E kind \in BKinds :
                 \/ /\ kind = "list"
                    /\ verCalls' = CountBatch(verCalls, batch)
                    /\ \E items \in [1..Len(batch) -> IPool] :
                          /\ cache' = CacheBatch(cache, batch, items)
                          /\ results' = results \o items
                    /\ AfterBatch(bi)
                    /\ UNCHANGED <<fi, fb>>
                 \/ /\ kind \in {"raise", "mismatch"}
                    /\ fi' = bi
                    /\ fb' = [start |-> bi, size |-> Len(batch),
                              calls |-> <<>>, failed |-> <<>>]
                    /\ pc' = "verify_single"
                    /\ UNCHANGED <<cache, verCalls, results, bi>>
    /\ UNCHANGED <<params, analysis, attempt, use_broader, genVars, rankVars,
                   valVars, bestVars, outVars, producedRej, selVars,
                   attemptCounts, strategy, onceVars>>

(* verify_single_company for data_valid[fi] in the fallback of the batch   *)
(* at bi: a cached key is returned without a call; a dict response is      *)
(* completed with setdefault and cached; a failed call and a non-dict      *)
(* response cache and return the uncertain record.                         *)
VerifySingle(IPool, SKinds) ==
    /\ pc = "verify_single"
    /\ LET comp == data_valid[fi]
           key == SingleKey(comp.company)
           last == Min(bi + batch_size - 1, Len(data_valid))
           advance == IF fi < last
                         THEN fi' = fi + 1 /\ pc' = "verify_single"
                                           /\ bi' = bi
                         ELSE fi' = fi /\ AfterBatch(bi)
       IN  IF key \in DOMAIN cache
              THEN /\ results' = Append(results, cache[key])
                   /\ advance
                   /\ UNCHANGED <<cache, verCalls, fb>>
              ELSE /\ verCalls' = Put(verCalls, PairOf(comp.company),
                                      Count(verCalls, PairOf(comp.company)) + 1)
                   /\ \E kind \in SKinds :
                         \/ /\ kind = "obj"
                            /\ \E item \in IPool :
                                  /\ item.kind = "obj"
                                  /\ cache' = Put(cache, key, SetDefaults(item))
                                  /\ results' = Append(results, SetDefaults(item))
                            /\ fb' = [fb EXCEPT !.calls = Append(@, fi)]
                         \/ /\ kind \in {"raise", "nonobj"}
                            /\ cache' = Put(cache, key, uncertain)
                            /\ results' = Append(results, uncertain)
                            /\ fb' = [fb EXCEPT !.calls = Append(@, fi),
                                                !.failed = Append(@, fi)]
                   /\ advance
    /\ UNCHANGED <<params, analysis, attempt, use_broader, genVars, rankVars,
                   valVars, bestVars, outVars, producedRej, selVars,
                   attemptCounts, strategy, onceVars>>

Entry(l, p) == [list |-> l, pos |-> p]

(* validate_companies: one iteration of the decision loop over             *)
(* zip(companies, verifications)                                           *)
ValidateStep ==
    /\ pc = "validate"
    /\ vidx <= Len(data_valid)
    /\ vidx <= Len(results)
    /\ LET comp == data_valid[vidx]
           v == results[vidx]
       IN  /\ IF v.kind # "obj"
                 THEN /\ decided' = Append(decided, Entry("none", 0))
                      /\ UNCHANGED <<valid, rejected, producedRej>>
              ELSE IF Branch(v) \in {"active", "likely_active"}
                 THEN /\ valid' = Append(valid, Accepted(comp, v))
                      /\ decided' = Append(decided, Entry("valid", Len(valid')))
                      /\ UNCHANGED <<rejected, producedRej>>
              ELSE /\ rejected' = Append(rejected, RejectedEntry(comp, v))
                   /\ decided' =
                          Append(decided, Entry("rejected", Len(rejected')))
                   /\ producedRej' = producedRej \cup {RejectedEntry(comp, v)}
                   /\ UNCHANGED valid
           /\ pc' = IF DecisionRaises(v) THEN "raised" ELSE "validate"
    /\ vidx' = vidx + 1
    /\ UNCHANGED <<params, analysis, attempt, use_broader, genVars, rankVars,
                   verVars, cache, verCalls, bestVars, outVars, fb, selVars,
                   attemptCounts, strategy, onceVars>>

(* validate_companies returns; all_rejected.extend(public_rejected) *)
ValidateReturn ==
    /\ pc = "validate"
    /\ vidx > Len(data_valid) \/ vidx > Len(results)
    /\ all_rejected' = all_rejected \o rejected
    /\ pc' = "normalize"
    /\ UNCHANGED <<params, analysis, attempt, use_broader, genVars,
                   data_valid, scored, scoreIns, normalized, verVars,
                   valVars, cache, verCalls,
                   bestVars, outVars, producedRej, fb, selVars,
                   attemptCounts, strategy, onceVars>>

(* Normalize leaving the loop after the first accepted comparable *)
Normalize_OnlyFirst ==
    /\ pc = "normalize"
    /\ normalized' = [i \in 1..Min(1, Len(valid)) |-> valid[i].company]
    /\ pc' = "score"
    /\ UNCHANGED <<params, analysis, attempt, use_broader, genVars,
                   all_rejected, data_valid, scored, scoreIns, verVars,
                   valVars, cache, verCalls, bestVars, outVars, producedRej,
                   fb, selVars, attemptCounts, strategy, onceVars>>

(* Step 3: the normalization loop over the accepted comparables; a failed *)
(* call keeps the raw description                                          *)
Normalize ==
    /\ pc = "normalize"
    /\ normalized' = [i \in 1..Len(valid) |-> valid[i].company]
    /\ pc' = "score"
    /\ UNCHANGED <<params, analysis, attempt, use_broader, genVars,
                   all_rejected, data_valid, scored, scoreIns, verVars,
                   valVars, cache, verCalls, bestVars, outVars, producedRej,
                   fb, selVars, attemptCounts, strategy, onceVars>>

(* Step 4: score every accepted comparable, which stores its score in the  *)
(* comparable, then sort by score                                          *)
Score(SPool) ==
    /\ pc = "score"
    /\ \E ins \in SPool[Len(valid)] :
          IF \E i \in 1..Len(valid) : ScoreRaises(ins[i])
             THEN pc' = "raised" /\ UNCHANGED <<valid, scored, scoreIns>>
             ELSE /\ valid' =
                      [i \in 1..Len(valid) |->
                          [valid[i] EXCEPT !.validation_score =
                              score_comparable(valid[i], analysis, ins[i])]]
                  /\ scored' = SortDesc(valid')
                  /\ scoreIns' = ins
                  /\ pc' = "select"
    /\ UNCHANGED <<params, analysis, attempt, use_broader, genVars,
                   all_rejected, data_valid, normalized, verVars, vidx,
                   rejected, decided, cache, verCalls, bestVars, outVars, producedRej,
                   fb, selVars, attemptCounts, strategy, onceVars>>

(* IsBetter replacing the retained attempt on a tie as well *)
IsBetter_OrEqual(cs, best) == Len(cs) >= Len(best)

(* line 1292: if len(comps) > len(best_comps) *)
IsBetter(cs, best) == Len(cs) > Len(best)

(* the threshold selection, and lines 1285-1297 of find_comparables *)
Select ==
    /\ pc = "select"
    /\ thresholds' = Thresholds(analysis.specialization_level)
    /\ comps' = ThresholdSelect(scored, thresholds', min_required)
    /\ attemptCounts' = Append(attemptCounts, Len(comps'))
    /\ IF Len(comps') >= min_required
          THEN /\ pc' = "done"
               /\ out_comps' = comps'
               /\ out_rejected' = all_rejected
               /\ UNCHANGED <<attempt, use_broader, gen_attempt, genCalls,
                              sleeps, genOutcome, bestVars, analysis,
                              analysisCalls>>
          ELSE /\ IF IsBetter(comps', best_comps)
                     THEN best_comps' = comps'
                          /\ best_rejected' = all_rejected
                     ELSE UNCHANGED bestVars
               /\ NextAttemptOrReturn(best_comps', best_rejected')
    /\ UNCHANGED <<params, candidates, rankVars, verVars, valVars,
                   cache, verCalls, producedRej, fb, strategy, embedCalls,
                   target_emb>>

----------------------------------------------------------------------------
(* The main specification: a whole search with short candidate lists *)

AnalysisPool ==
    {AnalysisResp("raise", "missing", 0, "missing"),
     AnalysisResp("nondict", "missing", 0, "missing"),
     AnalysisResp("dict", "missing", 0, "list"),
     AnalysisResp("dict", "num", 850, "list"),
     AnalysisResp("dict", "null", 0, "list")}

GenPool ==
    SeqsUpTo({CandA, CandB, CandBad, CandSpac, CandSelf, CandSelfUpper},
             MaxCands)

RecActive == Rec("true", "ACTIVE", "HIGH", "NULL", "NULL", "NULL", "NULL")
RecAcquired ==
    Rec("false", "ACQUIRED", "HIGH", "went private", "BigCo (BIG)",
        "2023-05-01", "NULL")
RecNullReason ==
    Rec("false", "ACQUIRED", "HIGH", "NULL", "BigCo (BIG)", "2023-05-01",
        "NULL")

ItemPool == {RecActive, RecAcquired, RecNullReason, NonObj}

ScoreHigh == ScoreIn(1000, 1000, "ok", 1000)
ScoreLow == ScoreIn(0, 0, "fail", 0)
ScoreNull == ScoreIn(1000, 1000, "null", 0)

(* per number of accepted comparables: the answers of the scoring oracles *)
ScorePool ==
    [n \in 0..MaxCands |-> [1..n -> {ScoreHigh, ScoreLow, ScoreNull}]]

GenKinds == {"raise", "nonlist", "list"}
BatchKinds == {"raise", "mismatch", "list"}
SingleKinds == {"raise", "nonobj", "obj"}

AnalyzeMain == Analyze(AnalysisPool)
GenCallMain == GenCall(GenPool, GenKinds)
VerifyBatchMain == VerifyBatch(ItemPool, BatchKinds)
VerifySingleMain == VerifySingle(ItemPool, SingleKinds)
ScoreMain == Score(ScorePool)

Next ==
    \/ AnalyzeMain
    \/ EmbedTarget
    \/ GenCallMain
    \/ AfterGenerate
    \/ Filter
    \/ VerifyBatchMain
    \/ VerifySingleMain
    \/ ValidateStep
    \/ ValidateReturn
    \/ Normalize
    \/ ScoreMain
    \/ Select

Spec == Init /\ [][Next]_vars

----------------------------------------------------------------------------
(* The validation specification: validate_companies on one candidate, for  *)
(* every verification record                                               *)

FullItems == AllRecs \cup {NonObj}

InitValidate ==
    /\ min_required = 1
    /\ max_attempts = 1
    /\ analysis = analyze_target_company(AnalysisResp("raise", "missing", 0,
                                                      "missing"))
    /\ attempt = 1
    /\ use_broader = FALSE
    /\ gen_attempt = 1
    /\ genCalls = 1
    /\ sleeps = <<>>
    /\ genOutcome = "ok"
    /\ cache = <<>>
    /\ verCalls = <<>>
    /\ best_comps = <<>>
    /\ best_rejected = <<>>
    /\ out_comps = <<>>
    /\ out_rejected = <<>>
    /\ producedRej = {}
    /\ \E c \in {CandA, CandAlow} :
          /\ candidates = <<c>>
          /\ data_valid = <<Comp(c)>>
    /\ pc = "verify_batch"
    /\ all_rejected = <<>>
    /\ bi = 1
    /\ fi = 1
    /\ results = <<>>
    /\ vidx = 1
    /\ valid = <<>>
    /\ rejected = <<>>
    /\ decided = <<>>
    /\ scored = <<>>
    /\ fb = NoFallback
    /\ comps = <<>>
    /\ thresholds = <<>>
    /\ scoreIns = <<>>
    /\ normalized = <<>>
    /\ attemptCounts = <<>>
    /\ strategy = "moderate"
    /\ analysisCalls = 1
    /\ embedCalls = 1
    /\ target_emb = "vector"

VerifyBatchFull == VerifyBatch(FullItems, BatchKinds)
VerifySingleFull == VerifySingle(FullItems, SingleKinds)

NextValidate ==
    \/ VerifyBatchFull
    \/ VerifySingleFull
    \/ ValidateStep
    \/ ValidateReturn

SpecValidate == InitValidate /\ [][NextValidate]_vars

----------------------------------------------------------------------------
(* The ranking specification: whole searches whose generator returns long  *)
(* lists of distinct well-formed candidates, so that more than max_allowed *)
(* comparables are scored                                                  *)

LongGenPool ==
    {[i \in 1..n |-> CandN(i)] : n \in (max_allowed - 1)..MaxLong}

(* a score between the first and the second threshold of either ladder,   *)
(* and the score 4.0 of a default profile                                  *)
ScoreMid == ScoreIn(600, 0, "fail", 0)
ScoreEdge == ScoreIn(750, 0, "ok", 0)

(* the first k comparables score high, the next e score 4.0 under the      *)
(* default profile, the next m score in between, the others low            *)
LongScorePool ==
    [n \in 0..MaxLong |->
        {[i \in 1..n |-> IF i <= p[1] THEN ScoreHigh
                         ELSE IF i <= p[1] + p[2] THEN ScoreEdge
                         ELSE IF i <= p[1] + p[2] + p[3] THEN ScoreMid
                         ELSE ScoreLow] :
            p \in {<<0, 0, 0>>, <<3, 0, 0>>, <<max_allowed, 0, 0>>,
                   <<n, 0, 0>>, <<2, 0, 3>>, <<2, 1, 1>>}}]

(* the profiles of the main specification and two more around 0.7 *)
RankAnalysisPool ==
    AnalysisPool \cup {AnalysisResp("dict", "num", 700, "list"),
                       AnalysisResp("dict", "num", 690, "list")}

InitRank ==
    /\ min_required \in {0, 3, max_allowed + 1}
    /\ max_attempts \in 1..MaxRankAttempts
    /\ InitSearch

AnalyzeRank == Analyze(RankAnalysisPool)
GenCallRank == GenCall(LongGenPool, {"raise", "list"})
VerifyBatchRank == VerifyBatch({RecActive}, {"raise", "list"})
VerifySingleRank == VerifySingle({RecActive}, {"obj"})
ScoreRank == Score(LongScorePool)

NextRank ==
    \/ AnalyzeRank
    \/ EmbedTarget
    \/ GenCallRank
    \/ AfterGenerate
    \/ Filter
    \/ VerifyBatchRank
    \/ VerifySingleRank
    \/ ValidateStep
    \/ ValidateReturn
    \/ Normalize
    \/ ScoreRank
    \/ Select

SpecRank == InitRank /\ [][NextRank]_vars

----------------------------------------------------------------------------
(* The termination specification: whole searches over short generator      *)
(* lists, in which every oracle call returns or fails and the search then  *)
(* goes on                                                                 *)

LiveGenPool == {<<CandA>>, <<CandA, CandB>>, <<CandSelf>>}
LiveItemPool == {RecActive, RecAcquired}
LiveScorePool == [n \in 0..MaxCands |-> [1..n -> {ScoreHigh, ScoreLow}]]

AnalyzeLive == Analyze(AnalysisPool)
GenCallLive == GenCall(LiveGenPool, GenKinds)
VerifyBatchLive == VerifyBatch(LiveItemPool, BatchKinds)
VerifySingleLive == VerifySingle(LiveItemPool, SingleKinds)
ScoreLive == Score(LiveScorePool)

NextLive ==
    \/ AnalyzeLive
    \/ EmbedTarget
    \/ GenCallLive
    \/ AfterGenerate
    \/ Filter
    \/ VerifyBatchLive
    \/ VerifySingleLive
    \/ ValidateStep
    \/ ValidateReturn
    \/ Normalize
    \/ ScoreLive
    \/ Select

SpecLive == Init /\ [][NextLive]_vars /\ WF_vars(NextLive)

----------------------------------------------------------------------------
(* The scoring specification: whole searches over one or two candidates    *)
(* that are accepted plain, with a caveat or as needing verification, and  *)
(* scored from every kind of answer of the scoring oracles                 *)

RecCaveat ==
    Rec("true", "ACTIVE", "HIGH", "NULL", "NULL", "NULL", "divested segment")
RecLikely ==
    Rec("NULL", "UNCERTAIN", "MEDIUM", "NULL", "NULL", "NULL", "NULL")

ScoreGenPool == {<<CandA>>, <<CandA, CandA>>, <<CandA, CandB>>}
ScoreItemPool == {RecActive, RecCaveat, RecLikely}

(* an embedding opposite to the target's: a negative cosine similarity *)
ScoreNeg == ScoreIn(-500, 1000, "ok", 1000)

ScoreInPool ==
    {ScoreHigh, ScoreLow, ScoreNeg, EmbedFails(ScoreHigh), EmbedFails(ScoreLow)}

ShortScorePool == [n \in 0..MaxCands |-> [1..n -> ScoreInPool]]

InitScore ==
    /\ min_required \in 1..MaxMinRequired
    /\ max_attempts \in 1..MaxRankAttempts
    /\ InitSearch

AnalyzeScore == Analyze(RankAnalysisPool)
GenCallScore == GenCall(ScoreGenPool, {"list"})
VerifyBatchScore == VerifyBatch(ScoreItemPool, {"raise", "list"})
VerifySingleScore == VerifySingle(ScoreItemPool, {"obj"})
ScoreShort == Score(ShortScorePool)

NextScore ==
    \/ AnalyzeScore
    \/ EmbedTarget
    \/ GenCallScore
    \/ AfterGenerate
    \/ Filter
    \/ VerifyBatchScore
    \/ VerifySingleScore
    \/ ValidateStep
    \/ ValidateReturn
    \/ Normalize
    \/ ScoreShort
    \/ Select

SpecScore == InitScore /\ [][NextScore]_vars

----------------------------------------------------------------------------
(* The order specification: searches of one attempt whose generator        *)
(* returns distinct candidates, complete and incomplete, operating and     *)
(* not, in every order                                                     *)

OrderCands == {CandA, CandB, CandC, CandBad, CandSpac}

OrderGenPool ==
    {cs \in SeqsUpTo(OrderCands, MaxOrder) :
        \A i, j \in 1..Len(cs) : cs[i] = cs[j] => i = j}

OrderItemPool == {RecActive, RecAcquired}

OrderScorePool == [n \in 0..MaxOrder |-> [1..n -> {ScoreHigh, ScoreLow}]]

InitOrder ==
    /\ min_required \in 1..MaxMinRequired
    /\ max_attempts = 1
    /\ InitSearch

AnalyzeOrder == Analyze(AnalysisPool)
GenCallOrder == GenCall(OrderGenPool, {"list"})
VerifyBatchOrder == VerifyBatch(OrderItemPool, BatchKinds)
VerifySingleOrder == VerifySingle(OrderItemPool, {"raise", "obj"})
ScoreOrder == Score(OrderScorePool)

NextOrder ==
    \/ AnalyzeOrder
    \/ EmbedTarget
    \/ GenCallOrder
    \/ AfterGenerate
    \/ Filter
    \/ VerifyBatchOrder
    \/ VerifySingleOrder
    \/ ValidateStep
    \/ ValidateReturn
    \/ Normalize
    \/ ScoreOrder
    \/ Select

SpecOrder == InitOrder /\ [][NextOrder]_vars

----------------------------------------------------------------------------
(* The batch specification: validate_companies on 1 to MaxVerified         *)
(* distinct companies, every batch answered by a list of records, by a     *)
(* list of another length or by an exception                               *)

InitBatch ==
    /\ min_required = 1
    /\ max_attempts = 1
    /\ analysis = analyze_target_company(AnalysisResp("raise", "missing", 0,
                                                      "missing"))
    /\ attempt = 1
    /\ use_broader = FALSE
    /\ gen_attempt = 1
    /\ genCalls = 1
    /\ sleeps = <<>>
    /\ genOutcome = "ok"
    /\ cache = <<>>
    /\ verCalls = <<>>
    /\ best_comps = <<>>
    /\ best_rejected = <<>>
    /\ out_comps = <<>>
    /\ out_rejected = <<>>
    /\ producedRej = {}
    /\ \E n \in 1..MaxVerified :
          /\ candidates = [i \in 1..n |-> CandN(i)]
          /\ data_valid = MapComp(candidates)
    /\ pc = "verify_batch"
    /\ all_rejected = <<>>
    /\ bi = 1
    /\ fi = 1
    /\ results = <<>>
    /\ vidx = 1
    /\ valid = <<>>
    /\ rejected = <<>>
    /\ decided = <<>>
    /\ scored = <<>>
    /\ fb = NoFallback
    /\ comps = <<>>
    /\ thresholds = <<>>
    /\ scoreIns = <<>>
    /\ normalized = <<>>
    /\ attemptCounts = <<>>
    /\ strategy = "moderate"
    /\ analysisCalls = 1
    /\ embedCalls = 1
    /\ target_emb = "vector"

VerifyBatchMixed == VerifyBatch(OrderItemPool, BatchKinds)
VerifySingleMixed == VerifySingle(OrderItemPool, {"obj"})

NextBatch ==
    \/ VerifyBatchMixed
    \/ VerifySingleMixed
    \/ ValidateStep
    \/ ValidateReturn

SpecBatch == InitBatch /\ [][NextBatch]_vars

----------------------------------------------------------------------------
(* Properties *)

Blank == {"NULL", "", "MISSING", "ABSENT"}

(* C1: when find_comparables has returned, every rejection produced in any *)
(* attempt of the search is in the rejection list of the metadata.         *)
C1_AllRejectionsInMetadata ==
    pc = "done" => producedRej \subseteq Range(out_rejected)

(* C2: within one validator, at most one oracle call verifies a given      *)
(* ticker+exchange pair; later verifications are served from the cache.    *)
C2_PairVerifiedAtMostOnce ==
    \A k \in DOMAIN verCalls : verCalls[k] <= 1

(* C3: find_comparables never propagates an exception, whatever the        *)
(* oracles answer.                                                         *)
C3_NoExceptionPropagates == pc # "raised"

(* C4: in every orchestrator attempt the generator returns the empty list  *)
(* for failed calls only after three oracle calls, having slept 2 s and    *)
(* then 4 s.                                                               *)
C4_ThreeCallsBeforeGivingUp ==
    genOutcome = "exhausted" => genCalls = 3 /\ sleeps = <<2, 4>>

(* C5: the returned comparables, and the best attempt retained, are never  *)
(* longer than max_allowed.                                                *)
C5_AtMostMaxAllowed ==
    /\ Len(best_comps) <= max_allowed
    /\ pc = "done" => Len(out_comps) <= max_allowed

(* a search that exhausted its attempts and returned a best attempt that   *)
(* was cut to max_allowed                                                  *)
C5_Witness ==
    /\ pc = "done"
    /\ Len(scored) > max_allowed
    /\ Len(out_comps) = max_allowed
    /\ Len(out_comps) < min_required
    /\ attempt = max_attempts

(* C6: every rejection entry has a reason and a status that are neither    *)
(* null nor empty.                                                         *)
C6_RejectionsHaveReasonAndStatus ==
    \A r \in Range(all_rejected) : r.reason \notin Blank /\ r.status \notin Blank

(* C7: a candidate whose record says is_publicly_traded = false, or whose  *)
(* status is ACQUIRED, MERGED, DELISTED or PRIVATE, is never accepted; the *)
(* rejection recorded for it carries the record's reason, acquirer and     *)
(* date.                                                                   *)
C7_NotTradingRejected ==
    \A i \in 1..Len(decided) :
        LET v == results[i]
        IN  (v.kind = "obj"
             /\ (v.is_publicly_traded = "false"
                 \/ v.status \in {"ACQUIRED", "MERGED", "DELISTED", "PRIVATE"}))
            => /\ decided[i].list = "rejected"
               /\ LET r == rejected[decided[i].pos]
                  IN  /\ r.company = data_valid[i].company
                      /\ r.reason = (IF v.reason = "MISSING"
                                        THEN "No longer publicly traded"
                                        ELSE v.reason)
                      /\ r.acquirer = (IF v.acquirer = "MISSING" THEN "NULL"
                                       ELSE v.acquirer)
                      /\ r.date = (IF v.date_changed = "MISSING" THEN "NULL"
                                   ELSE v.date_changed)

(* validate_companies returned a rejection of a record that says the stock *)
(* trades (is_publicly_traded = true) with status ACQUIRED, with acquirer  *)
C7_Witness ==
    /\ pc = "normalize"
    /\ \E i \in 1..Len(decided) :
          /\ results[i].is_publicly_traded = "true"
          /\ results[i].status = "ACQUIRED"
          /\ results[i].confidence = "LOW"
          /\ decided[i].list = "rejected"
          /\ all_rejected[decided[i].pos].acquirer = "BigCo (BIG)"
          /\ all_rejected[decided[i].pos].reason = "went private"

(* C8: for every record with one of the six statuses and one of the three  *)
(* confidence levels, whatever is_publicly_traded is, an accepted          *)
(* candidate has a record that is either publicly traded and ACTIVE, or    *)
(* UNCERTAIN with confidence MEDIUM or HIGH; only the latter is flagged    *)
(* _needs_verification.                                                    *)
C8_AcceptedOnlyActiveOrLikely ==
    \A i \in 1..Len(decided) :
        LET v == results[i]
            likely == v.status = "UNCERTAIN"
                      /\ v.confidence \in {"MEDIUM", "HIGH"}
        IN  (/\ decided[i].list = "valid"
             /\ v.status \in {"ACTIVE", "ACQUIRED", "MERGED", "DELISTED",
                               "PRIVATE", "UNCERTAIN"}
             /\ v.confidence \in {"HIGH", "MEDIUM", "LOW"})
            => /\ valid[decided[i].pos]._needs_verification => likely
               /\ (v.is_publicly_traded = "true" /\ v.status = "ACTIVE")
                  \/ likely

(* C9 as claimed: a record with status UNCERTAIN and confidence LOW is     *)
(* rejected with status UNCERTAIN and the manual-verification reason,      *)
(* whatever is_publicly_traded is.                                         *)
C9_UncertainLowManualReason ==
    \A i \in 1..Len(decided) :
        LET v == results[i]
        IN  (v.kind = "obj" /\ v.status = "UNCERTAIN" /\ v.confidence = "LOW")
            => /\ decided[i].list = "rejected"
               /\ rejected[decided[i].pos].status = "UNCERTAIN"
               /\ rejected[decided[i].pos].reason =
                      "Could not confirm public trading status - manual verification required"

(* C9 amended: a record with status UNCERTAIN and confidence LOW (absent   *)
(* keys read as these defaults) is never accepted and the rejection        *)
(* recorded for it has status UNCERTAIN; its reason is the                 *)
(* manual-verification reason when is_publicly_traded is true or unknown,  *)
(* and the record's reason when is_publicly_traded is false.               *)
C9_UncertainLowRejected ==
    \A i \in 1..Len(decided) :
        LET v == results[i]
        IN  (v.kind = "obj" /\ v.status \in {"UNCERTAIN", "MISSING"}
             /\ v.confidence \in {"LOW", "MISSING"})
            => /\ decided[i].list = "rejected"
               /\ rejected[decided[i].pos].company = data_valid[i].company
               /\ rejected[decided[i].pos].status = "UNCERTAIN"
               /\ rejected[decided[i].pos].reason =
                      (IF v.is_publicly_traded # "false"
                          THEN "Could not confirm public trading status - manual verification required"
                       ELSE IF v.reason = "MISSING"
                          THEN "No longer publicly traded"
                       ELSE v.reason)

(* validate_companies returned the rejection of an uncertain,              *)
(* low-confidence record whose is_publicly_traded is true                  *)
C9_Witness ==
    /\ pc = "normalize"
    /\ \E i \in 1..Len(decided) :
          /\ results[i].status = "UNCERTAIN"
          /\ results[i].confidence = "LOW"
          /\ results[i].is_publicly_traded = "true"
          /\ results[i].reason = "went private"
          /\ decided[i].list = "rejected"
          /\ all_rejected[decided[i].pos].confidence = "LOW"

(* C10: a record with is_publicly_traded = true and status ACTIVE is       *)
(* accepted at every confidence; the accepted candidate has _caveat        *)
(* exactly when material_changes is non-null and non-empty, and never has  *)
(* _needs_verification.                                                    *)
C10_ActiveAccepted ==
    \A i \in 1..Len(decided) :
        LET v == results[i]
        IN  (v.kind = "obj" /\ v.is_publicly_traded = "true"
             /\ v.status = "ACTIVE")
            => /\ decided[i].list = "valid"
               /\ LET e == valid[decided[i].pos]
                  IN  /\ e.company = data_valid[i].company
                      /\ (e._caveat # "NONE") <=>
                            (v.material_changes \notin {"MISSING", "NULL", ""})
                      /\ e._caveat # "NONE" => e._caveat = v.material_changes
                      /\ ~e._needs_verification

(* validate_companies returned an active candidate of LOW confidence with  *)
(* the caveat of its material change                                       *)
C10_Witness ==
    /\ pc = "normalize"
    /\ \E i \in 1..Len(decided) :
          /\ results[i].is_publicly_traded = "true"
          /\ results[i].status = "ACTIVE"
          /\ results[i].confidence = "LOW"
          /\ decided[i].list = "valid"
          /\ valid[decided[i].pos]._caveat = "divested segment"

(* C11: when a batch falls back to individual verification, the fallback   *)
(* issues one individual oracle call per candidate of that batch, in batch *)
(* order, and none for a candidate of another batch.                       *)
C11_FallbackCallsWholeBatch ==
    fb.start > 0 =>
        fb.calls = [k \in 1..(IF pc = "verify_single" THEN fi - fb.start
                              ELSE fb.size) |-> fb.start + k - 1]

NamesOf(cs) == {cs[i].name : i \in 1..Len(cs)}
CompNamesOf(cs) == {cs[i].company.name : i \in 1..Len(cs)}

(* C12: no candidate whose name contains the target's name, in any case,   *)
(* leaves the generator: none is filtered, verified, scored, rejected,     *)
(* retained or returned, in any attempt, broader attempts included.        *)
C12_TargetNeverAmongComparables ==
    \A n \in NamesOf(candidates) \cup CompNamesOf(data_valid)
             \cup CompNamesOf(valid) \cup CompNamesOf(scored)
             \cup CompNamesOf(comps) \cup CompNamesOf(best_comps)
             \cup CompNamesOf(out_comps) \cup CompNamesOf(all_rejected)
             \cup {r.company.name : r \in producedRej} :
        ~ContainsTarget(n)

(* a search that returned, from a broader attempt, a comparable of a list   *)
(* that also named the target                                              *)
C12_Witness ==
    /\ pc = "done"
    /\ genOutcome = "self"
    /\ use_broader
    /\ Len(out_comps) = 1
    /\ comps = out_comps

(* the scored comparables whose score is at least t, in ranking order *)
Qualifying(t) == SelectSeq(scored, LAMBDA c : c.validation_score >= t)

(* C13: validate_and_rank_comparables tries its thresholds in descending   *)
(* order and returns the comparables at or above the first threshold that  *)
(* at least min_required comparables reach, cut to the max_allowed best;   *)
(* when no threshold has min_required comparables it returns the           *)
(* max_allowed best of all scored comparables.                             *)
C13_FirstThresholdMet ==
    thresholds # <<>> =>
        LET met == {i \in 1..Len(thresholds) :
                        Len(Qualifying(thresholds[i])) >= min_required}
            first == CHOOSE i \in met : \A j \in met : i <= j
        IN  /\ \A i \in 1..(Len(thresholds) - 1) :
                  thresholds[i] > thresholds[i + 1]
            /\ \A i \in 1..(Len(scored) - 1) :
                  scored[i].validation_score >= scored[i + 1].validation_score
            /\ comps = IF met = {}
                          THEN SubSeq(scored, 1, Min(max_allowed, Len(scored)))
                          ELSE SubSeq(Qualifying(thresholds[first]), 1,
                                      Min(max_allowed,
                                          Len(Qualifying(thresholds[first]))))

(* the scenario of the claim: min_required is 3, 2 comparables reach 5.0   *)
(* and 5 reach 4.0, and those 5 are returned                               *)
C13_Witness ==
    /\ pc = "done"
    /\ min_required = 3
    /\ thresholds = <<5000, 4000, 3000>>
    /\ Len(Qualifying(5000)) = 2
    /\ Len(Qualifying(4000)) = 5
    /\ Len(scored) > max_allowed
    /\ out_comps = Qualifying(4000)

(* C14: the ladder is [5.0, 4.0, 3.0] exactly when specialization_level is *)
(* at least 0.7 and [4.0, 3.0, 2.0] otherwise, the default profile         *)
(* included, in every attempt of a search.                                 *)
C14_LadderBySpecialization ==
    thresholds # <<>> =>
        /\ analysis.specialization_level >= 700
              => thresholds = <<5000, 4000, 3000>>
        /\ analysis.specialization_level < 700
              => thresholds = <<4000, 3000, 2000>>

(* a broader second attempt of a target of specialization 0.7 exactly      *)
(* that used the ladder [5.0, 4.0, 3.0]                                    *)
C14_Witness ==
    /\ attempt = 2
    /\ use_broader
    /\ attemptCounts # <<>>
    /\ analysis.specialization_level = 700
    /\ thresholds = <<5000, 4000, 3000>>
    /\ Len(comps) > 0

(* the largest comparable count of the attempts made so far *)
MaxCount ==
    CHOOSE m \in Range(attemptCounts) \cup {0} :
        \A x \in Range(attemptCounts) \cup {0} : m >= x

(* no attempt made so far reached min_required comparables *)
NoneReached ==
    \A i \in 1..Len(attemptCounts) : attemptCounts[i] < min_required

(* C15: while no attempt has reached min_required, the retained attempt    *)
(* has the highest comparable count of the attempts made; it is replaced   *)
(* only by the comparables of an attempt with strictly more comparables    *)
(* than every earlier attempt (the earliest attempt wins a tie); when      *)
(* max_attempts is exhausted the retained comparables are returned, the    *)
(* empty list only if every attempt produced none.                         *)
C15_BestAttemptReturned ==
    /\ [](NoneReached =>
            /\ Len(best_comps) = MaxCount
            /\ pc = "done" => /\ Len(attemptCounts) = max_attempts
                              /\ out_comps = best_comps
                              /\ out_comps = <<>> <=> MaxCount = 0)
    /\ [][best_comps' # best_comps =>
            /\ best_comps' = comps'
            /\ Len(comps') > MaxCount]_vars

(* an exhausted search of two attempts with as many comparables each,      *)
(* fewer than min_required, that returned those of the first attempt       *)
C15_Witness ==
    /\ pc = "done"
    /\ Len(attemptCounts) = 2
    /\ attemptCounts[1] = attemptCounts[2]
    /\ attemptCounts[1] > 0
    /\ attemptCounts[1] < min_required
    /\ out_comps = best_comps
    /\ out_comps # comps

(* C16: the first attempt is never broader; a later attempt is broader     *)
(* exactly when the retained attempt has fewer than min_required           *)
(* comparables, which is every later attempt when min_required >= 1, also  *)
(* after an attempt without candidates; every generation call of a broader *)
(* attempt uses the broader strategy, every other one the strict strategy  *)
(* for specialization_level >= 0.7 and the moderate one below.             *)
C16_BroaderAfterFirstAttempt ==
    attempt >= 1 =>
        /\ attempt = 1 => ~use_broader
        /\ attempt > 1 => (use_broader <=> Len(best_comps) < min_required)
        /\ attempt > 1 /\ min_required >= 1 => use_broader
        /\ genCalls > 0 =>
              strategy = (IF use_broader THEN "broader"
                          ELSE IF analysis.specialization_level >= 700
                             THEN "strict"
                          ELSE "moderate")

(* the retried generation call of a broader second attempt that follows an *)
(* attempt without candidates, for a highly specialised target             *)
C16_Witness ==
    /\ attempt = 2
    /\ attemptCounts = <<0>>
    /\ use_broader
    /\ genCalls = 2
    /\ strategy = "broader"
    /\ analysis.specialization_level >= 700

(* C17: every search ends, by a return or by an exception, after at most   *)
(* max_attempts attempts; an attempt makes at most 3 generation calls; a   *)
(* search whose attempt returned at least min_required comparables returns *)
(* at once, and nothing happens after the end of a search.                 *)
C17_SearchTerminates ==
    /\ <>(pc \in {"done", "raised"})
    /\ [](/\ attempt <= max_attempts
          /\ Len(attemptCounts) <= max_attempts
          /\ genCalls <= 3)
    /\ [][/\ pc \notin {"done", "raised"}
          /\ pc = "select" /\ Len(comps') >= min_required => pc' = "done"]_vars

(* a search that used both of its two attempts and, in the second, both of *)
(* the generation calls this attempt can make                              *)
C17_Witness ==
    /\ pc = "done"
    /\ max_attempts = 2
    /\ Len(attemptCounts) = 2
    /\ genCalls = 2
    /\ genOutcome = "exhausted"

(* C18: the analysis oracle is called once and the target embedding is     *)
(* computed once, both before the first attempt; from the first attempt on *)
(* neither the profile nor the target embedding changes.                   *)
C18_AnalysisAndEmbeddingOnce ==
    /\ [](/\ analysisCalls <= 1
          /\ embedCalls <= 1
          /\ embedCalls = 1 => analysisCalls = 1
          /\ attempt >= 1 => /\ analysisCalls = 1
                             /\ embedCalls = 1
                             /\ target_emb # "unset")
    /\ [][attempt >= 1 => /\ analysis' = analysis
                          /\ target_emb' = target_emb]_vars

(* a broader second attempt about to score its accepted candidates         *)
C18_Witness ==
    /\ attempt = 2
    /\ use_broader
    /\ pc = "score"
    /\ Len(valid) > 0
    /\ analysisCalls = 1
    /\ embedCalls = 1

(* the ticker and exchange that identify a candidate *)
TickerExchange(c) == <<c.ticker, c.exchange>>

(* C19: within one attempt that raises no exception, no ticker+exchange   *)
(* is both among the accepted comparables and among the rejections of that *)
(* attempt.                                                                *)
C19_NeverAcceptedAndRejected ==
    pc # "raised" =>
        \A i \in 1..Len(valid) :
            \A r \in Range(all_rejected) \cup Range(rejected) :
                TickerExchange(valid[i].company) # TickerExchange(r.company)

(* C20: an individual verification call that raises or returns a           *)
(* non-object makes verify_single_company return, and cache under the      *)
(* candidate's ticker and exchange, the record (is_publicly_traded null,   *)
(* UNCERTAIN, LOW); validate_companies rejects that candidate with status  *)
(* UNCERTAIN and the manual-verification reason, and decides the other     *)
(* candidates of the batch by their own records.                           *)
C20_FailedCallGivesUncertain ==
    /\ \A k \in 1..Len(fb.failed) :
          LET i == fb.failed[k]
              c == data_valid[i].company
              key == <<Strip(Upper(c.ticker)), c.exchange>>
          IN  /\ i <= Len(results)
              /\ results[i].kind = "obj"
              /\ results[i].is_publicly_traded = "NULL"
              /\ results[i].status = "UNCERTAIN"
              /\ results[i].confidence = "LOW"
              /\ Len(results) = i => key \in DOMAIN cache /\ cache[key] = results[i]
              /\ i <= Len(decided) =>
                    /\ decided[i].list = "rejected"
                    /\ rejected[decided[i].pos].company = c
                    /\ rejected[decided[i].pos].status = "UNCERTAIN"
                    /\ rejected[decided[i].pos].confidence = "LOW"
                    /\ rejected[decided[i].pos].reason =
                           "Could not confirm public trading status - manual verification required"
    /\ fb.failed # <<>> =>
          \A i \in 1..Len(decided) :
              /\ (results[i].kind = "obj"
                  /\ results[i].is_publicly_traded = "true"
                  /\ results[i].status = "ACTIVE")
                 => decided[i].list = "valid"
              /\ (results[i].kind = "obj"
                  /\ results[i].is_publicly_traded = "false")
                 => /\ decided[i].list = "rejected"
                    /\ rejected[decided[i].pos].status = results[i].status

(* validate_companies returned after a fallback in which the call for the  *)
(* first candidate failed and the second candidate was verified as active: *)
(* the first is rejected, the second accepted                              *)
C20_Witness ==
    /\ pc = "normalize"
    /\ fb.failed = <<1>>
    /\ fb.calls = <<1, 2>>
    /\ Len(decided) = 2
    /\ decided[1].list = "rejected"
    /\ decided[2].list = "valid"
    /\ all_rejected[decided[1].pos].status = "UNCERTAIN"

(* C21: a comparable whose embedding call failed is scored with the        *)
(* semantic similarity 0.5: its score is the base 1.0 plus 0.5 times the   *)
(* weight 3.0 + 2.0 * specialization_level plus its other contributions;   *)
(* and every accepted comparable of the attempt is scored.                 *)
C21_EmbeddingFailureNeutral ==
    /\ \A i \in 1..Len(scoreIns) :
          scoreIns[i].emb = "fail" =>
              LET in == scoreIns[i]
                  weight == 3000 + 2 * analysis.specialization_level
                  focus == IF analysis.core_focus_areas = "list"
                              THEN in.focus ELSE 0
                  match == IF in.bm = "ok" THEN in.match ELSE 500
                  caveat == IF valid[i]._caveat # "NONE" THEN 500 ELSE 0
                  needs == IF valid[i]._needs_verification THEN 250 ELSE 0
              IN  valid[i].validation_score =
                      (1000 * 1000 + 500 * weight + focus * 1500
                       + match * 750 - (caveat + needs) * 1000 + 500)
                      \div 1000
    /\ scoreIns # <<>> => Len(scored) = Len(valid)

(* the scored comparables i and j of the attempt are the same company,     *)
(* scored from the same oracle answers                                     *)
SameButFlags(i, j) ==
    /\ valid[i].company = valid[j].company
    /\ scoreIns[i] = scoreIns[j]

(* the penalties of the scored comparable i, in thousandths *)
PenaltiesOf(i) ==
    (IF valid[i]._caveat # "NONE" THEN 500 ELSE 0)
    + (IF valid[i]._needs_verification THEN 250 ELSE 0)

(* of two otherwise identical comparables the one with _caveat scores 0.5  *)
(* lower and the one with _needs_verification 0.25 lower                   *)
PenaltiesExact ==
    \A i, j \in 1..Len(scoreIns) :
        SameButFlags(i, j) =>
            /\ (/\ valid[i]._caveat # "NONE"
                /\ valid[j]._caveat = "NONE"
                /\ valid[i]._needs_verification = valid[j]._needs_verification)
               => valid[i].validation_score = valid[j].validation_score - 500
            /\ (/\ valid[i]._needs_verification
                /\ ~valid[j]._needs_verification
                /\ valid[i]._caveat = valid[j]._caveat)
               => valid[i].validation_score = valid[j].validation_score - 250

SelectionAt(sc, t) == Truncate(AtLeast(sc, t))

(* C23: for the scored comparables of an attempt and any two thresholds    *)
(* T' < T of its ladder, the selection at T' (score >= T', cut to          *)
(* max_allowed) has at least as many comparables as the selection at T.    *)
C23_SelectionMonotonic ==
    \A i, j \in 1..Len(thresholds) :
        thresholds[j] < thresholds[i] =>
            Len(SelectionAt(scored, thresholds[j]))
                >= Len(SelectionAt(scored, thresholds[i]))

(* an attempt in which 2 comparables reach the first threshold and more    *)
(* reach the second, fewer than min_required at every threshold, so that   *)
(* the loop tried the whole ladder                                          *)
C23_Witness ==
    /\ pc = "done"
    /\ Len(thresholds) = 3
    /\ min_required > max_allowed
    /\ Len(Qualifying(thresholds[1])) = 2
    /\ Len(Qualifying(thresholds[2])) > 2
    /\ Len(Qualifying(thresholds[3])) >= Len(Qualifying(thresholds[2]))
    /\ Len(scored) > max_allowed

(* C24: after the analysis call, whatever the oracle answered, the profile *)
(* has a numeric specialization_level between 0.0 and 1.0 and the search   *)
(* goes on to embed the target; a failed call and a response that is not   *)
(* an object give the default level 0.5.                                   *)
C24_ProfileAlwaysUsable ==
    analysisCalls = 1 =>
        /\ ~analysis.null_field
        /\ analysis.specialization_level \in 0..1000
        /\ embedCalls = 0 => pc = "embed"

(* the pre-oracle filters of the current attempt have run *)
Filtered == pc \notin {"analyze", "embed", "generate", "generated", "filter"}

(* the positions of the rejections of the attempt recorded for candidate c *)
RejectionsOf(c) ==
    {k \in 1..Len(all_rejected) : all_rejected[k].company = c}

PreStatuses == {"DATA_INVALID", "NON_OPERATING"}

(* C25: once the filters of an attempt have run, a candidate that fails    *)
(* data completeness has exactly one rejection per occurrence in the       *)
(* generator's list, of status DATA_INVALID, a complete candidate with a   *)
(* structural non-operating keyword has exactly one, of status             *)
(* NON_OPERATING, these rejections precede every other, and neither        *)
(* candidate is handed to verification; no verification oracle call was    *)
(* ever made for the ticker and exchange of a candidate these filters      *)
(* rejected, and no verification record is cached for it.                  *)
C25_PreFiltersBeforeVerification ==
    /\ Filtered =>
          \A i \in 1..Len(candidates) :
              LET c == candidates[i]
                  status == IF ~is_valid_company_data(c) THEN "DATA_INVALID"
                            ELSE IF is_operating_company_basic(c) # "NONE"
                               THEN "NON_OPERATING"
                            ELSE "NONE"
              IN  status # "NONE" =>
                      /\ Cardinality(RejectionsOf(c)) =
                             Cardinality({k \in 1..Len(candidates) :
                                             candidates[k] = c})
                      /\ \A k \in RejectionsOf(c) :
                            /\ all_rejected[k].status = status
                            /\ k <= Len(candidates) - Len(data_valid)
                      /\ \A k \in 1..Len(data_valid) : data_valid[k].company # c
    /\ \A r \in producedRej :
          r.status \in PreStatuses =>
              /\ PairOf(r.company) \notin DOMAIN verCalls
              /\ PairOf(r.company) \notin DOMAIN cache

(* a search whose generator returned a SPAC, a complete operating company  *)
(* and an incomplete candidate: only the second was verified               *)
C25_Witness ==
    /\ pc = "done"
    /\ candidates = <<CandSpac, CandA, CandBad>>
    /\ Len(all_rejected) = 2
    /\ all_rejected[1].status = "NON_OPERATING"
    /\ all_rejected[2].status = "DATA_INVALID"
    /\ DOMAIN verCalls = {PairOf(CandA)}
    /\ Len(out_comps) = 1

(* C26: the comparables a search returns have pairwise different           *)
(* ticker+exchange pairs, and so have the candidates an attempt accepts    *)
(* and scores.                                                             *)
C26_OneEntryPerTickerExchange ==
    /\ \A i, j \in 1..Len(scored) :
          TickerExchange(scored[i].company) = TickerExchange(scored[j].company)
              => i = j
    /\ pc = "done" =>
          \A i, j \in 1..Len(out_comps) :
              TickerExchange(out_comps[i].company)
                  = TickerExchange(out_comps[j].company) => i = j

(* the state of the orchestrator's sequence a position belongs to:         *)
(* ANALYZING 1, EMBEDDING_TARGET 2, GENERATING 3, FILTERING 4, VERIFYING   *)
(* 5, NORMALIZING 6, SCORING 7, SELECTING 8, and 9 for a search that has   *)
(* ended                                                                   *)
PhaseOf(p) ==
    CASE p = "analyze" -> 1
      [] p = "embed" -> 2
      [] p \in {"generate", "generated"} -> 3
      [] p = "filter" -> 4
      [] p \in {"verify_batch", "verify_single", "validate"} -> 5
      [] p = "normalize" -> 6
      [] p = "score" -> 7
      [] p = "select" -> 8
      [] OTHER -> 9

(* the states that may follow each state: an attempt without candidates    *)
(* goes back to GENERATING or ends the search, an attempt without          *)
(* surviving candidates has nothing to verify, and SELECTING is followed   *)
(* by the next attempt or by the return; an exception ends the search      *)
PhasesAfter(n) ==
    CASE n = 1 -> {2, 9}
      [] n = 2 -> {3}
      [] n = 3 -> {3, 4, 9}
      [] n = 4 -> {5, 6}
      [] n = 5 -> {5, 6, 9}
      [] n = 6 -> {7}
      [] n = 7 -> {8, 9}
      [] n = 8 -> {3, 9}
      [] OTHER -> {}

CompaniesOf(cs) == [i \in 1..Len(cs) |-> cs[i].company]

(* C27: the steps of a search follow the sequence analysis, target         *)
(* embedding, and per attempt generation, pre-filtering, verification,     *)
(* normalization, scoring, selection; while an attempt verifies nothing    *)
(* is normalized or scored; normalization starts when every surviving      *)
(* candidate has its record and its decision, scoring when every accepted  *)
(* candidate is normalized, selection when every accepted candidate is     *)
(* scored; and no step follows the end of a search.                        *)
C27_StateSequence ==
    /\ [][PhaseOf(pc') \in PhasesAfter(PhaseOf(pc))]_vars
    /\ [](/\ embedCalls = 1 => analysisCalls = 1
          /\ genCalls > 0 => embedCalls = 1
          /\ PhaseOf(pc) = 5 =>
                /\ Len(all_rejected) + Len(data_valid) = Len(candidates)
                /\ normalized = <<>>
                /\ scoreIns = <<>>
                /\ scored = <<>>
          /\ PhaseOf(pc) = 6 =>
                /\ Len(results) = Len(data_valid)
                /\ Len(decided) = Len(data_valid)
                /\ Len(valid) + Len(rejected) = Len(data_valid)
                /\ normalized = <<>>
                /\ scoreIns = <<>>
          /\ PhaseOf(pc) = 7 =>
                /\ normalized = CompaniesOf(valid)
                /\ scoreIns = <<>>
                /\ scored = <<>>
          /\ PhaseOf(pc) = 8 =>
                /\ normalized = CompaniesOf(valid)
                /\ Len(scoreIns) = Len(valid)
                /\ Len(scored) = Len(valid)
                /\ Range(scored) = Range(valid)
                /\ thresholds = <<>>)

(* the second attempt of a search, after the pre-filter rejection of one   *)
(* of its two candidates and the individual fallback for the other, has    *)
(* normalized the one it accepted and is about to score it                 *)
C27_Witness ==
    /\ attempt = 2
    /\ pc = "score"
    /\ Len(candidates) = 2
    /\ Len(all_rejected) = 1
    /\ all_rejected[1].status = "NON_OPERATING"
    /\ fb.calls = <<1>>
    /\ Len(normalized) = 1
    /\ attemptCounts # <<>>
    /\ scored = <<>>

(* the position of company c in the generator's list of the attempt *)
GeneratorPos(c) == CHOOSE i \in 1..Len(candidates) : candidates[i] = c

(* the companies of cs are in generator order *)
InGeneratorOrder(cs) ==
    \A i, j \in 1..Len(cs) :
        i < j => GeneratorPos(cs[i]) < GeneratorPos(cs[j])

(* the comparables of cs are in non-increasing score order, equal scores   *)
(* in generator order                                                      *)
RankedStably(cs) ==
    \A i, j \in 1..Len(cs) :
        i < j =>
            \/ cs[i].validation_score > cs[j].validation_score
            \/ /\ cs[i].validation_score = cs[j].validation_score
               /\ GeneratorPos(cs[i].company) < GeneratorPos(cs[j].company)

(* C28: in an attempt over distinct candidates, the candidates handed to   *)
(* verification, the individual fallback calls, the accepted, the          *)
(* normalized and the scored candidates are in generator order; the        *)
(* rejections of the attempt list the pre-filter rejections in generator   *)
(* order and then the public-status rejections in generator order; the     *)
(* ranked, the selected and the returned comparables are in non-increasing *)
(* score order, equal scores in generator order.                           *)
C28_OrderPreserved ==
    Filtered =>
        /\ InGeneratorOrder(CompaniesOf(data_valid))
        /\ InGeneratorOrder(CompaniesOf(valid))
        /\ InGeneratorOrder(normalized)
        /\ InGeneratorOrder(CompaniesOf(rejected))
        /\ \A k, l \in 1..Len(fb.calls) : k < l => fb.calls[k] < fb.calls[l]
        /\ \A k, l \in 1..Len(all_rejected) :
              k < l =>
                  LET prek == all_rejected[k].status \in PreStatuses
                      prel == all_rejected[l].status \in PreStatuses
                  IN  /\ prel => prek
                      /\ prek = prel =>
                            GeneratorPos(all_rejected[k].company)
                                < GeneratorPos(all_rejected[l].company)
        /\ RankedStably(scored)
        /\ RankedStably(comps)
        /\ pc = "done" => RankedStably(out_comps)

(* a search returned two comparables of equal score in generator order,    *)
(* and the rejections of a SPAC and then of an acquired company that the   *)
(* generator had listed before the SPAC                                    *)
C28_Witness ==
    /\ pc = "done"
    /\ candidates = <<CandA, CandSpac, CandC, CandB>>
    /\ CompaniesOf(out_comps) = <<CandC, CandB>>
    /\ out_comps[1].validation_score = out_comps[2].validation_score
    /\ CompaniesOf(out_rejected) = <<CandSpac, CandA>>
    /\ out_rejected[2].status = "ACQUIRED"

(* how often company c occurs among the entries of cs *)
Occurrences(cs, c) == Cardinality({k \in 1..Len(cs) : cs[k].company = c})

(* C29: for an input of distinct companies, verify_batch adds exactly one  *)
(* record per company of every batch, in input order, whether the batch    *)
(* was answered by a list, by a list of another length or by an exception, *)
(* and whether it is full or short; validate_companies decides every       *)
(* company on its own record and, when it returns, every input company is  *)
(* in exactly one of valid and rejected, so that len(valid) +              *)
(* len(rejected) is the length of the input.                               *)
C29_ValidatePartitions ==
    /\ pc = "verify_batch" => Len(results) = bi - 1
    /\ pc = "verify_single" => Len(results) = fi - 1
    /\ pc \in {"validate", "normalize"} => Len(results) = Len(data_valid)
    /\ \A i \in 1..Len(results) :
          LET c == data_valid[i].company
          IN  /\ <<c.ticker, c.exchange>> \in DOMAIN cache
              /\ results[i] = cache[<<c.ticker, c.exchange>>]
    /\ \A i \in 1..Len(decided) :
          LET c == data_valid[i].company
              v == results[i]
          IN  /\ decided[i].list =
                     (IF v.is_publicly_traded = "true" /\ v.status = "ACTIVE"
                         THEN "valid" ELSE "rejected")
              /\ decided[i].list = "valid" =>
                     valid[decided[i].pos].company = c
              /\ decided[i].list = "rejected" =>
                     rejected[decided[i].pos].company = c
    /\ Len(valid) + Len(rejected) = Len(decided)
    /\ pc = "normalize" =>
          /\ Len(valid) + Len(rejected) = Len(data_valid)
          /\ \A i \in 1..Len(data_valid) :
                Occurrences(valid, data_valid[i].company)
                    + Occurrences(rejected, data_valid[i].company) = 1

(* validate_companies returned for an input of two full batches and a      *)
(* short one: the first batch was answered by a list, the second fell back *)
(* to individual calls, and 4 of the companies are rejected                *)
C29_Witness ==
    /\ pc = "normalize"
    /\ Len(data_valid) = 2 * batch_size + 1
    /\ fb.start = batch_size + 1
    /\ Len(fb.calls) = batch_size
    /\ Len(rejected) = 4
    /\ Len(valid) = Len(data_valid) - 4
    /\ decided[1].list = "rejected"
    /\ decided[Len(data_valid)].list = "rejected"

(* C30: find_comparables ends the search before max_attempts is exhausted  *)
(* only when, in that attempt, some threshold of the ladder had at least   *)
(* min_required qualifying comparables; a result returned that early holds *)
(* no comparable scoring below the lowest threshold of the ladder.         *)
C30_EarlyStopOnlyAtThreshold ==
    (pc = "done" /\ attempt < max_attempts) =>
        /\ thresholds # <<>>
        /\ \E i \in 1..Len(thresholds) :
               Len(Qualifying(thresholds[i])) >= min_required
        /\ \A k \in 1..Len(out_comps) :
               out_comps[k].validation_score >= thresholds[Len(thresholds)]

====
